---- MODULE Spec2Model ----
(***************************************************************************)
(* The share-page player (ShareVideo, src/unnamed/part_000): the React     *)
(* state of the component, the media element behind video2Ref, the play    *)
(* promises in flight and the handlers and effects that connect them.      *)
(*                                                                         *)
(* Granularity.  A handler runs together with the re-render it causes and  *)
(* the effects whose dependencies changed in that render.  The one effect  *)
(* that itself sets state (lines 24-29, isLoading) is a step of its own:   *)
(* it runs after the render of the loadedmetadata handler has committed.   *)
(* A state update made after the component unmounted is dropped by React.  *)
(*                                                                         *)
(* Time.  Times are integer ticks; a reported duration or an element       *)
(* position is a multiple of TimeScale, chosen so that the float division  *)
(* of calculateNewTime is exact for every bar width of the model.          *)
(***************************************************************************)
EXTENDS Integers, FiniteSets, Sequences, TLC

VARIABLES
    mounted,              \* the component is mounted
    isPlaying,            \* useState, line 17
    currentTime,          \* useState, line 18
    isLoading,            \* useState, line 19
    longestDuration,      \* useState, line 20
    seeking,              \* useState, line 21
    videoMetadataLoaded,  \* useState, line 22
    elPaused,             \* video2Ref.current.paused
    elTime,               \* video2Ref.current.currentTime
    elDuration,           \* video2Ref.current.duration, 0 while unknown (NaN)
    audioDuration,        \* duration reported by the audio track, 0 before
    pend,                 \* play promises not settled, by place of issue
    rej,                  \* rejected play promises whose handler has not run
    tuListeners,          \* timeupdate listeners registered on the element
    console,              \* the last message of console.error
    unhandled,            \* a rejection with no handler has happened
    fs,                   \* fullscreen: "off", "pending" or "on"
    dbl,                  \* history: toggles in succession on a pending play
    late,                 \* history: the outcomes delivered after unmount
    pressed,              \* the pointer is held down on the seek bar
    muted,                \* video2Ref.current.muted
    args,                 \* handler harness: the inputs
    out                   \* handler harness: the result

vars ==
    <<mounted, isPlaying, currentTime, isLoading, longestDuration, seeking,
      videoMetadataLoaded, elPaused, elTime, elDuration, audioDuration, pend,
      rej, tuListeners, console, unhandled, fs, dbl, late, pressed, muted,
      args, out>>

reactVars ==
    <<isPlaying, currentTime, isLoading, longestDuration, seeking,
      videoMetadataLoaded>>

mediaVars == <<elPaused, pend, rej, console, unhandled>>

harnessVars == <<args, out>>

uiVars == <<pressed, muted>>

(***************************************************************************)
(* Bounds                                                                  *)
(***************************************************************************)
MaxDur == 2

MaxBarWidth == 2

MaxRej == 1

MaxListeners == 2

RECURSIVE Factorial(_)
Factorial(n) == IF n <= 1 THEN 1 ELSE n * Factorial(n - 1)

\* ticks per unit of reported time: every bar width divides it
TimeScale == Factorial(MaxBarWidth)

Durations == {d * TimeScale : d \in 1..MaxDur}

Min(a, b) == IF a <= b THEN a ELSE b

Max(a, b) == IF a >= b THEN a ELSE b

clamp(x, lo, hi) == Max(lo, Min(x, hi))

(***************************************************************************)
(* The media element and its play promises                                 *)
(***************************************************************************)
\* where play() is called: line 63, line 88, line 166, line 175, line 135
Kinds == {"toggle", "sync", "effect", "syncPlay", "seek"}

\* the calls whose rejection handler sets state
RejKinds == {"toggle", "sync"}

NoPend == [k \in Kinds |-> 0]

NoRej == [k \in RejKinds |-> 0]

Media ==
    [paused |-> elPaused, pend |-> pend, rej |-> rej, console |-> console,
     unhandled |-> unhandled]

SetMedia(m) ==
    /\ elPaused' = m.paused
    /\ pend' = m.pend
    /\ rej' = m.rej
    /\ console' = m.console
    /\ unhandled' = m.unhandled

RejOK(m) == \A k \in RejKinds : m.rej[k] <= MaxRej

\* The rejection of the promises ks (a function Kinds -> count).  The two
\* handlers that set state stay queued in rej; the catch of line 176 only
\* calls console.log, and the promises of lines 166 and 135 have no
\* handler at all.
Rejected(m, ks) ==
    [m EXCEPT
        !.rej = [k \in RejKinds |-> m.rej[k] + ks[k]],
        !.unhandled = m.unhandled \/ ks["effect"] > 0 \/ ks["seek"] > 0]

\* element.play(): not allowed (autoplay policy) returns a rejected promise
\* and leaves the element as it is; otherwise the element is no longer
\* paused and the promise waits for playback to start.
Play(m, kind, allowed) ==
    IF allowed
    THEN [m EXCEPT !.paused = FALSE, !.pend[kind] = @ + 1]
    ELSE Rejected(m, [k \in Kinds |-> IF k = kind THEN 1 ELSE 0])

\* element.pause(): a paused element is left alone; otherwise it is paused
\* and every pending play promise is rejected (AbortError).
Pause(m) ==
    IF m.paused THEN m
    ELSE Rejected([m EXCEPT !.paused = TRUE, !.pend = NoPend], m.pend)

(***************************************************************************)
(* The pure parts of the component                                         *)
(***************************************************************************)
\* lines 119-124: offsetX / rect.width * longestDuration.  The division is
\* exact here: dur is a multiple of TimeScale and rectWidth divides it.
calculateNewTime(clientX, rectLeft, rectWidth, dur) ==
    ((clientX - rectLeft) * dur) \div rectWidth

\* lines 83-86: the value handleTimeUpdate gives to setCurrentTime
handleTimeUpdate(elCur) == elCur

\* lines 103-108: the currentTime after handleSeeking has run
handleSeeking(seeking_, elCur, cur) == IF seeking_ THEN elCur ELSE cur

\* watchedPercentage without the test of longestDuration > 0; -1 stands for
\* the NaN that 0 / 0 gives
watchedPercentageUnguarded(cur, dur) ==
    IF dur = 0 THEN -1 ELSE (cur * 100) \div dur

\* lines 161-162, as a whole number of percent (the fraction is dropped)
watchedPercentage(cur, dur) == IF dur > 0 THEN (cur * 100) \div dur ELSE 0

\* lines 71-74: the element takes the position (its setter keeps it within
\* [0, duration]) and the state takes the time as given.
applyTimeToVideos(time, elDur) ==
    [elTime |-> clamp(time, 0, elDur), currentTime |-> time]

\* handleSeekMouseUp without the test of line 129
handleSeekMouseUpUnguarded(s, clientX, rectLeft, rectWidth) ==
    LET seekTo == calculateNewTime(clientX, rectLeft, rectWidth,
                                   s.longestDuration)
        a == applyTimeToVideos(seekTo, s.elDuration)
    IN  [seeking |-> FALSE, isPlaying |-> s.isPlaying,
         currentTime |-> a.currentTime, elTime |-> a.elTime,
         play |-> s.isPlaying]

\* handleSeekMouseUp taking the commit for a pause
handleSeekMouseUpPausing(s, clientX, rectLeft, rectWidth) ==
    IF ~s.seeking
    THEN [seeking |-> s.seeking, isPlaying |-> s.isPlaying,
          currentTime |-> s.currentTime, elTime |-> s.elTime, play |-> FALSE]
    ELSE LET seekTo == calculateNewTime(clientX, rectLeft, rectWidth,
                                        s.longestDuration)
             a == applyTimeToVideos(seekTo, s.elDuration)
         IN  [seeking |-> FALSE, isPlaying |-> FALSE,
              currentTime |-> a.currentTime, elTime |-> a.elTime,
              play |-> FALSE]

\* lines 127-137, on the state s = [seeking, isPlaying, currentTime,
\* longestDuration, elTime, elDuration]; play says whether line 135 ran.
handleSeekMouseUp(s, clientX, rectLeft, rectWidth) ==
    IF ~s.seeking
    THEN [seeking |-> s.seeking, isPlaying |-> s.isPlaying,
          currentTime |-> s.currentTime, elTime |-> s.elTime, play |-> FALSE]
    ELSE LET seekTo == calculateNewTime(clientX, rectLeft, rectWidth,
                                        s.longestDuration)
             a == applyTimeToVideos(seekTo, s.elDuration)
         IN  [seeking |-> FALSE, isPlaying |-> s.isPlaying,
              currentTime |-> a.currentTime, elTime |-> a.elTime,
              play |-> s.isPlaying]

\* line 231: onMouseLeave={() => setSeeking(false)}
handleSeekMouseLeave(seeking_) == FALSE

\* a mute that also pauses the element
handleMuteClickPausing(s) == [muted |-> ~s.muted, paused |-> TRUE]

\* lines 139-144 on s = [muted, paused]: the muted flag of the element is
\* flipped and nothing else of it is touched
handleMuteClick(s) == [s EXCEPT !.muted = ~s.muted]

\* a setter that writes whether or not the component is still mounted
SetStateUnmounted(isMounted, cur, val) == val

\* A setter of useState (lines 17-22): React drops the update of a
\* component that has unmounted.
SetState(isMounted, cur, val) == IF isMounted THEN val ELSE cur

\* the toggle setting isPlaying whatever it was
TogglePlayingStuck(playing) == TRUE

\* line 53: setIsPlaying(!isPlaying)
TogglePlaying(playing) == ~playing

\* lines 55-68: the element command of handlePlayPauseClick, playing being
\* the isPlaying of the render the handler was created in
handlePlayPauseClick(m, playing, allowed) ==
    IF playing THEN Pause(m) ELSE Play(m, "toggle", allowed)

\* a catch handler that logs and leaves isPlaying as it is
CatchKeepsPlaying(playing) == playing

\* lines 66 and 90: setIsPlaying(false) in the two catch handlers
CatchSetsPlaying(playing) == FALSE

\* syncPlayback without the test of isLoading
SyncPlaybackRunsWhileLoading(playing, loading) == playing

\* line 81: syncPlayback goes on to play and to listen
SyncPlaybackRuns(playing, loading) == playing /\ ~loading

\* lines 57-63, 81-88, 166 and 174-175: whether the click that turns isPlaying
\* from playing to ~playing sends the element a play(), hasElement telling
\* whether video2Ref.current is set; every one of the four play() calls sits
\* behind a test of the ref, and that of line 63 runs when playing was false
playIssued(hasElement, playing, loading) ==
    \/ hasElement /\ ~playing
    \/ hasElement /\ TogglePlaying(playing)
    \/ hasElement /\ SyncPlaybackRuns(TogglePlaying(playing), loading)

\* lines 77-99: the play() of syncPlayback
SyncPlaybackEffect(m, playing, loading, allowed) ==
    IF SyncPlaybackRuns(playing, loading) THEN Play(m, "sync", allowed) ELSE m

\* lines 164-170
PlayPauseEffect(m, playing, allowed) ==
    IF playing THEN Play(m, "effect", allowed) ELSE Pause(m)

\* lines 172-183
SyncPlayEffect(m, playing, loading, allowed) ==
    IF playing /\ ~loading THEN Play(m, "syncPlay", allowed) ELSE m

\* the effects that run after a render in which isPlaying changed
PlayingEffects(m, playing, loading, allowed) ==
    SyncPlayEffect(
        PlayPauseEffect(SyncPlaybackEffect(m, playing, loading, allowed),
                        playing, allowed),
        playing, loading, allowed)

\* the effects that run after a render in which only isLoading changed
LoadingEffects(m, playing, loading, allowed) ==
    SyncPlayEffect(SyncPlaybackEffect(m, playing, loading, allowed),
                   playing, loading, allowed)

\* line 92: addEventListener("timeupdate", ...); the clean-up syncPlayback
\* returns is dropped by the effect (line 98), so nothing removes it.
ListenersAfter(n, playing, loading) ==
    IF SyncPlaybackRuns(playing, loading) THEN n + 1 ELSE n

(***************************************************************************)
(* The component: initial state and steps                                  *)
(***************************************************************************)
MaxBarLeft == 1

BarLefts == 0..MaxBarLeft

BarWidths == 1..MaxBarWidth

PointerXs == 0..(MaxBarLeft + MaxBarWidth + 1)

NoArgs == [op |-> "none"]

NoOut == [op |-> "none"]

\* lines 16-22, a mounted component over an element that has loaded nothing
ComponentInit ==
    /\ mounted = TRUE
    /\ isPlaying = FALSE
    /\ currentTime = 0
    /\ isLoading = TRUE
    /\ longestDuration = 0
    /\ seeking = FALSE
    /\ videoMetadataLoaded = FALSE
    /\ elPaused = TRUE
    /\ elTime = 0
    /\ elDuration = 0
    /\ audioDuration = 0
    /\ pend = NoPend
    /\ rej = NoRej
    /\ tuListeners = 0
    /\ console = "none"
    /\ unhandled = FALSE
    /\ fs = "off"
    /\ dbl = "idle"
    /\ late = {}
    /\ pressed = FALSE
    /\ muted = FALSE

Init == ComponentInit /\ args = NoArgs /\ out = NoOut

\* A click on either play button (lines 204 and 254): handlePlayPauseClick,
\* the render and the effects on isPlaying.
Click ==
    /\ mounted
    /\ \E allowed \in BOOLEAN :
        LET playing == TogglePlaying(isPlaying)
            m == PlayingEffects(
                     handlePlayPauseClick(Media, isPlaying, allowed),
                     playing, isLoading, allowed)
            n == ListenersAfter(tuListeners, playing, isLoading)
        IN  /\ RejOK(m)
            /\ n <= MaxListeners
            /\ isPlaying' = playing
            /\ SetMedia(m)
            /\ tuListeners' = n
            /\ dbl' = IF ~isPlaying
                      THEN (IF allowed THEN "first" ELSE "idle")
                      ELSE (IF dbl = "first" /\ pend["toggle"] > 0
                            THEN "second" ELSE "idle")
    /\ UNCHANGED <<mounted, currentTime, isLoading, longestDuration, seeking,
                   videoMetadataLoaded, elTime, elDuration, audioDuration,
                   fs, late, uiVars,
                   harnessVars>>

\* The catch handler of a rejected play promise (k = "toggle": lines 64-67,
\* k = "sync": lines 88-91) with the render and the effects that follow.
CatchRejection(k) ==
    /\ rej[k] > 0
    /\ LET m0 == [Media EXCEPT !.rej[k] = @ - 1, !.console = k]
           playing == SetState(mounted, isPlaying,
                               CatchSetsPlaying(isPlaying))
           m == IF playing # isPlaying
                THEN PlayingEffects(m0, playing, isLoading, FALSE)
                ELSE m0
       IN  /\ RejOK(m)
           /\ ListenersAfter(tuListeners, playing, isLoading) <= MaxListeners
           /\ isPlaying' = playing
           /\ SetMedia(m)
           /\ tuListeners' = IF playing # isPlaying
                             THEN ListenersAfter(tuListeners, playing,
                                                 isLoading)
                             ELSE tuListeners
    /\ late' = IF mounted THEN late ELSE late \cup {k}
    /\ UNCHANGED <<mounted, currentTime, isLoading, longestDuration, seeking,
                   videoMetadataLoaded, elTime, elDuration, audioDuration,
                   fs, dbl, uiVars,
                   harnessVars>>

RejectToggle == CatchRejection("toggle")

RejectSync == CatchRejection("sync")

\* Playback starts: the element resolves every pending play promise.  No
\* resolution handler of the component does anything.
ElPlaying ==
    /\ pend # NoPend
    /\ pend' = NoPend
    /\ late' = IF mounted THEN late ELSE late \cup {"played"}
    /\ UNCHANGED <<mounted, reactVars, elPaused, elTime, elDuration,
                   audioDuration, rej, tuListeners, console, unhandled, fs,
                   dbl, uiVars,
                   harnessVars>>

\* The element gives up on playback (no supported source, or the user
\* agent pauses it): every pending play promise is rejected.
ElReject ==
    /\ pend # NoPend
    /\ \E p \in BOOLEAN :
        LET m == Rejected([Media EXCEPT !.paused = p, !.pend = NoPend], pend)
        IN  RejOK(m) /\ SetMedia(m)
    /\ UNCHANGED <<mounted, reactVars, elTime, elDuration, audioDuration,
                   tuListeners, fs, dbl, late, uiVars,
                   harnessVars>>

\* loadedmetadata on the element; onVideoLoadedMetadata (lines 32-38) is
\* registered from mount to unmount (lines 42-49).
OnVideoLoadedMetadata ==
    /\ elDuration = 0
    /\ \E d \in Durations :
        /\ elDuration' = d
        /\ IF mounted
           THEN videoMetadataLoaded' = TRUE /\ longestDuration' = d
           ELSE UNCHANGED <<videoMetadataLoaded, longestDuration>>
    /\ UNCHANGED <<mounted, isPlaying, currentTime, isLoading, seeking,
                   elTime, audioDuration, mediaVars, tuListeners, fs, dbl,
                   late, uiVars,
                   harnessVars>>

\* an effect that ends the loading without waiting for the metadata
MetadataEffectRunsAlways(loaded) == TRUE

\* line 25: if (videoMetadataLoaded)
MetadataEffectRuns(loaded) == loaded

\* The effect of lines 24-29 once videoMetadataLoaded is true, the render
\* and the effects on isLoading.
MetadataEffect ==
    /\ mounted
    /\ MetadataEffectRuns(videoMetadataLoaded)
    /\ isLoading
    /\ \E allowed \in BOOLEAN :
        LET m == LoadingEffects(Media, isPlaying, FALSE, allowed)
            n == ListenersAfter(tuListeners, isPlaying, FALSE)
        IN  /\ RejOK(m)
            /\ n <= MaxListeners
            /\ SetMedia(m)
            /\ tuListeners' = n
    /\ isLoading' = FALSE
    /\ UNCHANGED <<mounted, isPlaying, currentTime, longestDuration, seeking,
                   videoMetadataLoaded, elTime, elDuration, audioDuration,
                   fs, dbl, late, uiVars,
                   harnessVars>>

\* The audio track (audioSrc, line 223) reports its metadata.  The
\* component listens to video2Ref only.
AudioLoadedMetadata ==
    /\ audioDuration = 0
    /\ \E d \in Durations : audioDuration' = d
    /\ UNCHANGED <<mounted, reactVars, elPaused, elTime, elDuration, pend,
                   rej, tuListeners, console, unhandled, fs, dbl, late,
                   uiVars,
                   harnessVars>>

\* The element loads its resource again: it is paused, its pending play
\* promises are rejected, its position returns to 0 (with a timeupdate if
\* that moved it) and its duration is unknown until the next metadata.
ElLoad ==
    /\ elDuration # 0
    /\ LET m == Pause(Media) IN RejOK(m) /\ SetMedia(m)
    /\ elDuration' = 0
    /\ elTime' = 0
    /\ currentTime' = IF tuListeners > 0 /\ elTime # 0
                      THEN SetState(mounted, currentTime, handleTimeUpdate(0))
                      ELSE currentTime
    /\ UNCHANGED <<mounted, isPlaying, isLoading, longestDuration, seeking,
                   videoMetadataLoaded, audioDuration, tuListeners, fs, dbl,
                   late, uiVars,
                   harnessVars>>

\* Playback advances the position of an element that is not paused.
ElAdvance ==
    /\ ~elPaused
    /\ elTime < elDuration
    /\ elTime' = elTime + TimeScale
    /\ UNCHANGED <<mounted, reactVars, elPaused, elDuration, audioDuration,
                   pend, rej, tuListeners, console, unhandled, fs, dbl, late,
                   uiVars,
                   harnessVars>>

\* timeupdate on the element: every registered handleTimeUpdate runs.
ElTimeUpdate ==
    /\ currentTime' = IF tuListeners > 0
                      THEN SetState(mounted, currentTime,
                                    handleTimeUpdate(elTime))
                      ELSE currentTime
    /\ UNCHANGED <<mounted, isPlaying, isLoading, longestDuration, seeking,
                   videoMetadataLoaded, elPaused, elTime, elDuration,
                   audioDuration, pend, rej, tuListeners, console, unhandled,
                   fs, dbl, late, uiVars,
                   harnessVars>>

\* seeking on the element: handleSeeking (lines 103-108) is registered
\* from mount to unmount (lines 112-116).
ElSeeking ==
    /\ currentTime' = IF mounted
                      THEN handleSeeking(seeking, elTime, currentTime)
                      ELSE currentTime
    /\ UNCHANGED <<mounted, isPlaying, isLoading, longestDuration, seeking,
                   videoMetadataLoaded, elPaused, elTime, elDuration,
                   audioDuration, pend, rej, tuListeners, console, unhandled,
                   fs, dbl, late, uiVars,
                   harnessVars>>

SeekState ==
    [seeking |-> seeking, isPlaying |-> isPlaying,
     currentTime |-> currentTime, longestDuration |-> longestDuration,
     elTime |-> elTime, elDuration |-> elDuration]

\* The event and the bar are read only past the guard of line 129, and
\* play() is called only with isPlaying (line 134).
SeekEvents ==
    IF seeking
    THEN [clientX : PointerXs, left : BarLefts, width : BarWidths]
    ELSE {[clientX |-> 0, left |-> 0, width |-> 1]}

SeekPlayOutcomes == IF seeking /\ isPlaying THEN BOOLEAN ELSE {TRUE}

\* mouseup or touchend on the seek bar (lines 230 and 232)
HandleSeekMouseUp ==
    /\ mounted
    /\ \E e \in SeekEvents, allowed \in SeekPlayOutcomes :
        LET r == handleSeekMouseUp(SeekState, e.clientX, e.left, e.width)
            m == IF r.play THEN Play(Media, "seek", allowed) ELSE Media
        IN  /\ RejOK(m)
            /\ seeking' = r.seeking
            /\ currentTime' = r.currentTime
            /\ elTime' = r.elTime
            /\ isPlaying' = r.isPlaying
            /\ SetMedia(m)
    /\ pressed' = FALSE
    /\ UNCHANGED <<mounted, isLoading, longestDuration, videoMetadataLoaded,
                   elDuration, audioDuration, tuListeners, fs, dbl, late,
                   muted, harnessVars>>

\* the pointer leaves the seek bar (line 231)
SeekMouseLeave ==
    /\ mounted
    /\ seeking' = handleSeekMouseLeave(seeking)
    /\ pressed' = FALSE
    /\ UNCHANGED <<mounted, isPlaying, currentTime, isLoading,
                   longestDuration, videoMetadataLoaded, elPaused, elTime,
                   elDuration, audioDuration, pend, rej, tuListeners, console,
                   unhandled, fs, dbl, late, muted, harnessVars>>

\* lines 146-159
HandleFullscreenClick ==
    /\ mounted
    /\ fs' = IF fs # "on" THEN "pending" ELSE "off"
    /\ UNCHANGED <<mounted, reactVars, elPaused, elTime, elDuration,
                   audioDuration, pend, rej, tuListeners, console, unhandled,
                   dbl, late, uiVars,
                   harnessVars>>

\* requestFullscreen() is granted
FullscreenResolved ==
    /\ fs = "pending"
    /\ fs' = "on"
    /\ late' = IF mounted THEN late ELSE late \cup {"fullscreen"}
    /\ UNCHANGED <<mounted, reactVars, elPaused, elTime, elDuration,
                   audioDuration, pend, rej, tuListeners, console, unhandled,
                   dbl, uiVars,
                   harnessVars>>

\* requestFullscreen() is refused: the catch of lines 151-155 logs
FullscreenRejected ==
    /\ fs = "pending"
    /\ fs' = "off"
    /\ console' = "fullscreen"
    /\ late' = IF mounted THEN late ELSE late \cup {"fullscreen"}
    /\ UNCHANGED <<mounted, reactVars, elPaused, elTime, elDuration,
                   audioDuration, pend, rej, tuListeners, unhandled, dbl,
                   uiVars,
                   harnessVars>>

\* A click on the mute button (line 276)
HandleMuteClick ==
    /\ mounted
    /\ LET r == handleMuteClick([muted |-> muted, paused |-> elPaused])
       IN  muted' = r.muted /\ elPaused' = r.paused
    /\ UNCHANGED <<mounted, reactVars, elTime, elDuration, audioDuration,
                   pend, rej, tuListeners, console, unhandled, fs, dbl, late,
                   pressed, harnessVars>>

\* The view is torn down.  The clean-ups of lines 44-49 and 114-116 run;
\* the effect of lines 77-99 returns none.  The element leaves the document
\* and the user agent pauses it.
Unmount ==
    /\ mounted
    /\ mounted' = FALSE
    /\ LET m == Pause(Media) IN RejOK(m) /\ SetMedia(m)
    /\ UNCHANGED <<reactVars, elTime, elDuration, audioDuration, tuListeners,
                   fs, dbl, late, uiVars,
                   harnessVars>>

Next ==
    \/ Click
    \/ RejectToggle
    \/ RejectSync
    \/ ElPlaying
    \/ ElReject
    \/ OnVideoLoadedMetadata
    \/ MetadataEffect
    \/ AudioLoadedMetadata
    \/ ElLoad
    \/ ElAdvance
    \/ ElTimeUpdate
    \/ ElSeeking
    \/ HandleSeekMouseUp
    \/ SeekMouseLeave
    \/ HandleFullscreenClick
    \/ FullscreenResolved
    \/ FullscreenRejected
    \/ HandleMuteClick
    \/ Unmount

Spec == Init /\ [][Next]_vars

\* The pointer goes down on the seek bar (lines 227-233).  The bar has no
\* handler for it, so the component does nothing.
SeekPointerDown ==
    /\ mounted
    /\ ~pressed
    /\ pressed' = TRUE
    /\ UNCHANGED <<mounted, reactVars, elTime, elDuration, audioDuration,
                   mediaVars, tuListeners, fs, dbl, late, muted, harnessVars>>

GestureNext == Next \/ SeekPointerDown

\* the component together with the presses on its seek bar
GestureSpec == Init /\ [][GestureNext]_vars

(***************************************************************************)
(* The handlers on their own: each is applied to a component state drawn   *)
(* from HandlerArgs, whether or not the component can bring itself there.  *)
(***************************************************************************)
Times == {d * TimeScale : d \in 0..MaxDur}

\* a Ready component: the element has reported longestDuration, and the
\* two positions lie within it
HandlerArgs ==
    {a \in [op : {"args"}, seeking : BOOLEAN, isPlaying : BOOLEAN,
            currentTime : Times, longestDuration : {0} \cup Durations,
            elTime : Times, clientX : PointerXs, left : BarLefts,
            width : BarWidths] :
        a.currentTime <= a.longestDuration /\ a.elTime <= a.longestDuration}

HandlerInit == ComponentInit /\ args \in HandlerArgs /\ out = NoOut

ArgState ==
    [seeking |-> args.seeking, isPlaying |-> args.isPlaying,
     currentTime |-> args.currentTime,
     longestDuration |-> args.longestDuration, elTime |-> args.elTime,
     elDuration |-> args.longestDuration]

Result(op, r) ==
    [op |-> op, seeking |-> r.seeking, isPlaying |-> r.isPlaying,
     currentTime |-> r.currentTime, elTime |-> r.elTime, play |-> r.play]

Untouched ==
    [seeking |-> args.seeking, isPlaying |-> args.isPlaying,
     currentTime |-> args.currentTime, elTime |-> args.elTime,
     play |-> FALSE]

ApplySeekMouseUp ==
    /\ out' = Result("handleSeekMouseUp",
                     handleSeekMouseUp(ArgState, args.clientX, args.left,
                                       args.width))
    /\ UNCHANGED <<mounted, reactVars, elTime, elDuration, audioDuration,
                   mediaVars, tuListeners, fs, dbl, late, uiVars,
                   args>>

ApplyTimeUpdate ==
    /\ out' = Result("handleTimeUpdate",
                     [Untouched EXCEPT
                         !.currentTime = handleTimeUpdate(args.elTime)])
    /\ UNCHANGED <<mounted, reactVars, elTime, elDuration, audioDuration,
                   mediaVars, tuListeners, fs, dbl, late, uiVars,
                   args>>

ApplySeeking ==
    /\ out' = Result("handleSeeking",
                     [Untouched EXCEPT
                         !.currentTime = handleSeeking(args.seeking,
                                                       args.elTime,
                                                       args.currentTime)])
    /\ UNCHANGED <<mounted, reactVars, elTime, elDuration, audioDuration,
                   mediaVars, tuListeners, fs, dbl, late, uiVars,
                   args>>

\* handlePlayPauseClick with its effects, over a ref that may be unset and
\* in a session that may still be loading
ApplyPlayPauseClick ==
    /\ \E hasElement \in BOOLEAN, loading \in BOOLEAN :
        out' = Result("handlePlayPauseClick",
                      [Untouched EXCEPT
                          !.isPlaying = TogglePlaying(args.isPlaying),
                          !.play = playIssued(hasElement, args.isPlaying,
                                              loading)])
    /\ UNCHANGED <<mounted, reactVars, elTime, elDuration, audioDuration,
                   mediaVars, tuListeners, fs, dbl, late, uiVars,
                   args>>

\* the handler of onMouseLeave (line 231)
ApplySeekMouseLeave ==
    /\ out' = Result("handleSeekMouseLeave",
                     [Untouched EXCEPT
                         !.seeking = handleSeekMouseLeave(args.seeking)])
    /\ UNCHANGED <<mounted, reactVars, elTime, elDuration, audioDuration,
                   mediaVars, tuListeners, fs, dbl, late, uiVars,
                   args>>

HandlerNext ==
    \/ ApplySeekMouseLeave
    \/ ApplySeekMouseUp
    \/ ApplyTimeUpdate
    \/ ApplySeeking
    \/ ApplyPlayPauseClick

HandlerSpec == HandlerInit /\ [][HandlerNext]_vars

(***************************************************************************)
(* Claims                                                                  *)
(***************************************************************************)
Quiet == pend = NoPend /\ rej = NoRej

\* C1: when the catch handler of a rejected play request (of the toggle,
\* or of the syncPlayback the toggle started) runs in a mounted component,
\* the step ends with isPlaying = FALSE and the failure written with
\* console.error, whatever happened between the toggle and the rejection.
C1_PlayFailureReverts ==
    [][\A k \in RejKinds :
          (mounted /\ rej'[k] < rej[k]) =>
              (isPlaying' = FALSE /\ console' = k)]_vars

\* a toggle's rejection was handled while mounted and left the session paused
C1_Witness ==
    mounted /\ console = "toggle" /\ ~isPlaying /\ dbl = "first" /\ Quiet

\* C3: the session leaves Loading only after both tracks have reported,
\* never returns to it, and on leaving it duration is the larger of the
\* two reported durations.
C3_ReadyAfterBothWithMax ==
    [][/\ (~isLoading => ~isLoading')
       /\ (isLoading /\ ~isLoading') =>
              /\ elDuration # 0
              /\ audioDuration # 0
              /\ longestDuration' = Max(elDuration, audioDuration)]_vars

\* C4: after a toggle on a pending play request of the toggle before it,
\* once every outcome has been delivered, isPlaying is FALSE, no play
\* request is in flight and the element is paused.
C4_DoubleToggleEndsPaused ==
    (dbl = "second" /\ Quiet) => (~isPlaying /\ elPaused)

\* the second toggle was made, the rejection of the first request handled
C4_Witness ==
    dbl = "second" /\ Quiet /\ mounted /\ console = "toggle" /\ ~isLoading

C9_WatchedPercentageRange ==
    LET wp == watchedPercentage(currentTime, longestDuration)
    IN  /\ 0 <= wp /\ wp <= 100
        /\ longestDuration = 0 => wp = 0
        /\ isLoading => wp = 0

\* half of a known duration has been watched
C9_Witness ==
    /\ ~isLoading
    /\ currentTime > 0
    /\ watchedPercentage(currentTime, longestDuration) = 50

\* C10: while isLoading, currentTime is still 0.
C10_NoTimeWhileLoading == isLoading => currentTime = 0

\* the element plays and has moved on while the session is still Loading
C10_Witness == isLoading /\ isPlaying /\ elTime > 0 /\ currentTime = 0

(***************************************************************************)
(* Claims about the handlers on their own (HandlerSpec)                    *)
(***************************************************************************)
Committed == out.op = "handleSeekMouseUp" /\ args.seeking

\* clamp((pointerX - barLeft) / barWidth, 0, 1) * duration
ClampedTarget ==
    (clamp(args.clientX - args.left, 0, args.width) * args.longestDuration)
        \div args.width

TimeWithinDurationAsBuilt ==
    ~isLoading => (0 <= currentTime /\ currentTime <= longestDuration)

(***************************************************************************)
(* Claims about the seek gesture (GestureSpec)                             *)
(***************************************************************************)
\* C11: while the pointer is held down on the seek bar of a Ready session
\* isSeeking is TRUE, so that the release is applied as a seek commit.
C11_PressStartsSeeking == (pressed /\ ~isLoading) => seeking

\* what the component does instead: isSeeking is never TRUE
SeekingNeverSet == ~seeking

(***************************************************************************)
(* Claims about the component, continued (Spec)                            *)
(***************************************************************************)
\* C12: duration never decreases, whatever metadata events follow the
\* first one.
C12_DurationNeverDecreases == [][longestDuration' >= longestDuration]_vars

\* C13: no rejection of a play request is left without a handler.
C13_NoUnhandledRejection == ~unhandled

\* C14: a step that changes the muted flag or the fullscreen state leaves
\* isPlaying, isLoading, isSeeking, currentTime and duration alone and
\* sends the element no play, pause or seek; the mute toggle flips muted
\* (so two of them restore it) and changes nothing else at all.
C14_MuteAndFullscreenApart ==
    [][/\ (muted' # muted \/ fs' # fs) =>
              UNCHANGED <<reactVars, elPaused, elTime, pend, rej, unhandled>>
       /\ muted' # muted =>
              /\ muted' = ~muted
              /\ UNCHANGED <<mounted, elDuration, audioDuration, tuListeners,
                             console, fs, dbl, late, pressed>>]_vars

\* during playback the element was muted and a fullscreen request refused
C14_Witness ==
    /\ mounted /\ muted /\ fs = "off" /\ console = "fullscreen"
    /\ isPlaying /\ ~elPaused /\ ~isLoading

\* C15: whenever a toggle leaves isPlaying TRUE it has sent the element a
\* play command, the element handle being available or not, the session
\* loading or not.
C15_PlayingMeansPlayIssued ==
    (out.op = "handlePlayPauseClick" /\ out.isPlaying) => out.play

\* C16: as long as the component has handled no metadata event the session
\* is Loading, isLoading TRUE and duration 0, whatever toggles, seek
\* gestures, mute and fullscreen commands and play outcomes have happened.
C16_LoadingUntilMetadata ==
    ~videoMetadataLoaded => (isLoading /\ longestDuration = 0)

\* no metadata yet, after a refused play, a second toggle, a mute and an
\* entry into fullscreen
C16_Witness ==
    /\ mounted /\ ~videoMetadataLoaded /\ isLoading
    /\ isPlaying /\ console = "toggle" /\ muted /\ fs = "on"

\* C17: once the view has unmounted no timeupdate listener of the component
\* is left on the element (those of loadedmetadata and seeking are removed
\* by their clean-ups), so no media event reaches a handler any more.
C17_NoListenerAfterUnmount == ~mounted => tuListeners = 0

\* The element of video2Ref has played its resource to the end.
ended == elDuration > 0 /\ elTime = elDuration

\* The element of video2Ref is playing: not paused and not at its end.
potentiallyPlaying == ~elPaused /\ ~ended

\* C18: in a mounted component with no play promise pending and no
\* rejection waiting for its handler, isPlaying is TRUE exactly when the
\* element is playing.
C18_PlayingAgreesWithElement ==
    (mounted /\ Quiet) => (isPlaying <=> potentiallyPlaying)

\* C19: the element carries at most one timeupdate listener of the
\* component, and none while isPlaying is FALSE.
C19_OneListenerWhilePlaying ==
    tuListeners <= 1 /\ (~isPlaying => tuListeners = 0)

\* C20: a release on the seek bar while isSeeking is FALSE changes neither
\* currentTime, the element's position, isPlaying nor isSeeking and issues
\* no play; the pointer leaving the bar sets isSeeking FALSE and changes
\* neither currentTime nor the element's position.
C20_IdleReleaseAndLeave ==
    /\ (out.op = "handleSeekMouseUp" /\ ~args.seeking) =>
           /\ out.currentTime = args.currentTime
           /\ out.elTime = args.elTime
           /\ out.isPlaying = args.isPlaying
           /\ out.seeking = args.seeking
           /\ ~out.play
    /\ out.op = "handleSeekMouseLeave" =>
           /\ ~out.seeking
           /\ out.currentTime = args.currentTime
           /\ out.elTime = args.elTime

\* a release, outside a drag, of a playing session at a point of the bar
\* that stands for another time than the current one
C20_Witness ==
    /\ out.op = "handleSeekMouseUp"
    /\ ~args.seeking /\ args.isPlaying /\ args.longestDuration > 0
    /\ calculateNewTime(args.clientX, args.left, args.width,
                        args.longestDuration) # args.currentTime

====
